---- MODULE Spec2Model ----
(***************************************************************************)
(* Job lifecycle manager of the diarization service: the two job stores    *)
(* (queue.py: InMemoryQueue, RedisQueue), the background worker            *)
(* (worker.py: WorkerThread.run, process_job, send_webhook) and the        *)
(* request handlers that submit and query jobs (main.py).                  *)
(*                                                                         *)
(* Granularity.  Threads interleave between the steps below.  In the       *)
(* volatile store every attribute assignment made by update_job is one     *)
(* step (the lock is held across them, but get_job takes no lock); in the  *)
(* durable store every Redis command (SET, GET, RPUSH, LPOP) is one step.  *)
(***************************************************************************)
EXTENDS Integers, Sequences, FiniteSets, TLC

\* ------------------------------------------------------------------ bounds
MaxJobs == 2      \* jobs ever created (uuid4 values handed out)
MaxClock == 2     \* distinct readings of datetime.utcnow()
MaxCalls == 3     \* store calls made by the clients of SpecStore
MaxFaults == 2    \* persistence errors raised by the durable store
MaxTime == 2      \* segment boundaries are among 0 .. MaxTime
MaxTrans == 1     \* transcript segments given to the alignment
MaxDiar == 2      \* diarization segments given to the alignment
MaxSegs == 3      \* aligned segments given to the merge
MaxMany == 2      \* transcript segments of the calls with several of them

\* ------------------------------------------------------- values and threads
None == <<>>
Some(v) == <<v>>

Worker == "worker"
\* the thread that runs the application's lifespan (start_worker, stop_worker)
Main == "main"
\* the handlers of main.py are coroutines without an await around their store
\* calls: they all run, one after the other, on the one event-loop thread
Handlers == {"handler"}
Clients == {"c1", "c2"}
Threads == {Worker, Main} \cup Handlers \cup Clients

PENDING == "PENDING"
PROCESSING == "PROCESSING"
COMPLETED == "COMPLETED"
FAILED == "FAILED"
JobStatus == {PENDING, PROCESSING, COMPLETED, FAILED}

\* JobStatus.<member>.value
StatusValue(s) ==
    CASE s = PENDING -> "pending"
      [] s = PROCESSING -> "processing"
      [] s = COMPLETED -> "completed"
      [] s = FAILED -> "failed"

\* JobStatus(<value>)
StatusOfValue(v) == CHOOSE s \in JobStatus : StatusValue(s) = v

\* settings.webhook_url
webhook_url == "default_cb"

\* bodies of POST /diarize
Requests ==
    { [recording_id |-> "rec1", audio_url |-> "url1", callback_url |-> None],
      [recording_id |-> "rec2", audio_url |-> "url2", callback_url |-> Some("cb2")] }

\* mutant of Job: started_at has a default factory, as created_at has
JobStamped(id, recording_id, audio_url, callback_url, now) ==
    [ id |-> id, recording_id |-> recording_id, audio_url |-> audio_url,
      callback_url |-> callback_url, status |-> PENDING, result |-> None,
      error |-> None, created_at |-> now, started_at |-> Some(now),
      completed_at |-> None ]

\* the dataclass Job, as constructed by add_job
Job(id, recording_id, audio_url, callback_url, now) ==
    [ id |-> id, recording_id |-> recording_id, audio_url |-> audio_url,
      callback_url |-> callback_url, status |-> PENDING, result |-> None,
      error |-> None, created_at |-> now, started_at |-> None,
      completed_at |-> None ]

\* Job.to_dict followed by json.dumps: the status becomes its value
to_dict(job) == [job EXCEPT !.status = StatusValue(job.status)]

\* json.loads, JobStatus(...) and Job(**job_dict) in RedisQueue.get_job
from_dict(d) == [d EXCEPT !.status = StatusOfValue(d.status)]

\* ------------------------------------------------------------------- state
VARIABLES
    backend,      \* "memory" (InMemoryQueue) or "redis" (RedisQueue): settings.redis_url
    clock,        \* the last reading of datetime.utcnow()
    nextId,       \* uuid.uuid4(): the next fresh id
    jobs,         \* InMemoryQueue.jobs: the dict's values in insertion order
    lock,         \* InMemoryQueue._lock: "free" or the thread holding it
    rkeys,        \* Redis keys diarization:job:<id> -> serialized job
    rqueue,       \* Redis list diarization:jobs
    pc,           \* position of every thread
    loc,          \* locals of every thread
    running,      \* WorkerThread.running
    audio_path,   \* process_job's audio_path
    tmpfiles,     \* temporary files that exist (named by the job they were made for)
    webhooks,     \* POSTs attempted by send_webhook, in order
    posted,       \* outcome of the POSTs of the process_job under way: delivered or not
    returned,     \* history: the jobs returned by get_next_pending, in order
    addDone,      \* history: ids whose add_job has returned
    before,       \* history: id -> ids whose add_job had returned when add_job(id) began
    caught,       \* history: jobs whose exception reached the worker loop's except
    noneMissed,   \* history: get_next_pending returned None past an added pending job
    calls,        \* number of store calls made by the clients of SpecStore
    updates,      \* history: the update_job calls that found their job
    pipeline,     \* DiarizationService.pipeline: None or loaded
    embedding_model, \* DiarizationService.embedding_model: None or loaded
    model,        \* TranscriptionService.model: None or loaded
    faults,       \* number of persistence errors the durable store has raised
    waited,       \* seconds stop_worker has spent in _worker.join(timeout=5)
    apc,          \* position of the call of align_transcript_with_speakers
    transcript_segments,   \* its first argument
    diarization_segments,  \* its second argument
    aligned_segments,      \* its list aligned_segments once the loop has ended
    merged_segments,       \* what it returns
    segments,     \* first argument of merge_consecutive_speaker_segments, as the caller sees it
    max_gap_arg,  \* its argument max_gap
    merged,       \* what it returns
    _queue,       \* the module global _queue of queue.py: None or a queue object
    qobjects,     \* the queue objects constructed, each with the ids of the jobs in its dict
    qlocal        \* the queue object each thread got from its last get_queue()

storeVars == <<backend, clock, nextId, jobs, lock, rkeys, rqueue>>
threadVars == <<pc, loc>>
workerVars == <<running, audio_path, tmpfiles, webhooks, posted, caught>>
histVars == <<returned, addDone, before, noneMissed, calls, updates>>
engineVars == <<pipeline, embedding_model, model>>
alignVars == <<apc, transcript_segments, diarization_segments, aligned_segments,
               merged_segments, segments, max_gap_arg, merged>>
queueVars == <<_queue, qobjects, qlocal>>
restVars == <<engineVars, faults, waited, alignVars, queueVars>>
vars == <<storeVars, threadVars, workerVars, histVars, restVars>>

\* datetime.utcnow(): the readings a call may get
Now == {clock}

NoArgs == [job_id |-> 0, status |-> None, result |-> None, error |-> None, req |-> None]

NoLocals ==
    [ args |-> NoArgs, ret |-> "idle", rv |-> None, job |-> None,
      writes |-> <<>>, held |-> None, resp |-> None, seen |-> {} ]

\* ------------------------------------------------------------ store helpers
\* a reference to a Job object of InMemoryQueue.jobs
Ref(id) == [ref |-> id]

MemHas(id) == \E i \in 1 .. Len(jobs) : jobs[i].id = id
MemIndex(id) == CHOOSE i \in 1 .. Len(jobs) : jobs[i].id = id

\* the Job a thread holds: the live object (volatile store) or its own copy
Deref(j) == IF "ref" \in DOMAIN j THEN jobs[MemIndex(j.ref)] ELSE j

\* the stored job with this id, as get_job would return it now
Stored(id) ==
    IF backend = "memory" THEN jobs[MemIndex(id)] ELSE from_dict(rkeys[id])

IsStored(id) == IF backend = "memory" THEN MemHas(id) ELSE id \in DOMAIN rkeys

StoredIds == {id \in 1 .. (nextId - 1) : IsStored(id)}

\* the arguments of an update_job call, as the history keeps them
Update(args) ==
    [job_id |-> args.job_id, status |-> args.status, result |-> args.result,
     error |-> args.error]

\* the attribute assignments of update_job, in order (queue.py 96-107, 172-183)
UpdateWrites(args) ==
    (IF args.status # None
        THEN <<"status">> \o
             (IF args.status[1] = PROCESSING THEN <<"started_at">>
              ELSE IF args.status[1] \in {COMPLETED, FAILED} THEN <<"completed_at">>
              ELSE <<>>)
        ELSE <<>>)
    \o (IF args.result # None THEN <<"result">> ELSE <<>>)
    \o (IF args.error # None THEN <<"error">> ELSE <<>>)

\* mutant of ApplyWrite: the job is rebuilt with Job(...) when its status is
\* set, and created_at takes its default anew
ApplyWriteRebuilt(job, f, args, now) ==
    CASE f = "status" -> [job EXCEPT !.status = args.status[1], !.created_at = now + 1]
      [] f = "started_at" -> [job EXCEPT !.started_at = Some(now)]
      [] f = "completed_at" -> [job EXCEPT !.completed_at = Some(now)]
      [] f = "result" -> [job EXCEPT !.result = args.result]
      [] f = "error" -> [job EXCEPT !.error = args.error]

\* one attribute assignment of update_job
ApplyWrite(job, f, args, now) ==
    CASE f = "status" -> [job EXCEPT !.status = args.status[1]]
      [] f = "started_at" -> [job EXCEPT !.started_at = Some(now)]
      [] f = "completed_at" -> [job EXCEPT !.completed_at = Some(now)]
      [] f = "result" -> [job EXCEPT !.result = args.result]
      [] f = "error" -> [job EXCEPT !.error = args.error]

RECURSIVE ApplyWrites(_, _, _, _)
ApplyWrites(job, ws, args, now) ==
    IF ws = <<>> THEN job
    ELSE ApplyWrites(ApplyWrite(job, Head(ws), args, now), Tail(ws), args, now)

\* mutant of FirstPending: the scan keeps the last pending job it meets
LastPending(js) ==
    IF \E i \in 1 .. Len(js) : js[i].status = PENDING
        THEN Some(js[CHOOSE i \in 1 .. Len(js) :
                        /\ js[i].status = PENDING
                        /\ \A k \in (i + 1) .. Len(js) : js[k].status # PENDING].id)
        ELSE None

\* the scan of InMemoryQueue.get_next_pending: the first pending job of the dict
FirstStored(js) == IF js = <<>> THEN None ELSE Some(js[1].id)

FirstPending(js) ==
    IF \E i \in 1 .. Len(js) : js[i].status = PENDING
        THEN Some(js[CHOOSE i \in 1 .. Len(js) :
                        /\ js[i].status = PENDING
                        /\ \A k \in 1 .. (i - 1) : js[k].status # PENDING].id)
        ELSE None

\* mutant of Lpop: the head is read (LINDEX) and left in the list
LpopPeek(list) == [val |-> Head(list), rest |-> list]

\* redis.lpop on a non-empty list: the value popped and the list left
Lpop(list) == [val |-> Head(list), rest |-> Tail(list)]

\* redis.rpush
Rpush(list, v) == Append(list, v)

\* ids returned so far by get_next_pending
ReturnedIds == {returned[i].id : i \in 1 .. Len(returned)}

\* an added job that is waiting to be handed out
Waiting(id) ==
    /\ id \in addDone
    /\ id \notin ReturnedIds
    /\ Stored(id).status = PENDING

\* ------------------------------------------------------- calls and returns
Entry(op) ==
    IF backend = "memory"
        THEN CASE op = "add_job" -> "m_add"
               [] op = "get_job" -> "m_get"
               [] op = "get_next_pending" -> "m_next"
               [] op = "update_job" -> "mu_get"
        ELSE CASE op = "add_job" -> "r_add_set"
               [] op = "get_job" -> "r_get"
               [] op = "get_next_pending" -> "r_next_pop"
               [] op = "update_job" -> "ru_get"

\* thread t calls queue.<op>(args) and continues at ret
Call(t, op, args, ret) ==
    /\ pc' = [pc EXCEPT ![t] = Entry(op)]
    /\ loc' = [loc EXCEPT ![t] = [@ EXCEPT !.args = args, !.ret = ret, !.rv = None,
                                            !.job = None, !.writes = <<>>,
                                            !.seen = IF op = "add_job" THEN addDone ELSE {}]]

\* the call of thread t returns rv (a caller that goes back to idle drops it)
Return(t, rv) ==
    /\ pc' = [pc EXCEPT ![t] = loc[t].ret]
    /\ loc' = [loc EXCEPT ![t] = [@ EXCEPT !.rv = IF loc[t].ret = "idle" THEN None ELSE rv,
                                            !.job = None, !.writes = <<>>,
                                            !.args = NoArgs, !.seen = {}, !.ret = "idle"]]

\* the Job constructed by add_job from its arguments
NewJob(t, now) ==
    Job(nextId, loc[t].args.req[1].recording_id, loc[t].args.req[1].audio_url,
        loc[t].args.req[1].callback_url, now)

\* ------------------------------------------------------------ InMemoryQueue
\* add_job: Job(...) and, under the lock, self.jobs[job.id] = job
MemAddJob(t) ==
    /\ pc[t] = "m_add"
    /\ lock = "free"
    /\ \E now \in Now :
        /\ clock' = now
        /\ jobs' = Append(jobs, NewJob(t, now))
    /\ nextId' = nextId + 1
    /\ before' = before @@ (nextId :> loc[t].seen)
    /\ addDone' = addDone \cup {nextId}
    /\ Return(t, Some(Ref(nextId)))
    /\ UNCHANGED <<restVars, backend, lock, rkeys, rqueue, workerVars, returned, noneMissed, calls, updates>>

\* get_job: self.jobs.get(job_id), the live object, without the lock
MemGetJob(t) ==
    /\ pc[t] = "m_get"
    /\ Return(t, IF MemHas(loc[t].args.job_id)
                    THEN Some(Ref(loc[t].args.job_id)) ELSE None)
    /\ UNCHANGED <<restVars, storeVars, workerVars, histVars>>

\* get_next_pending: under the lock, the first job of the dict that is pending
MemGetNextPending(t) ==
    /\ pc[t] = "m_next"
    /\ lock = "free"
    /\ LET r == FirstPending(jobs) IN
        /\ Return(t, IF r = None THEN None ELSE Some(Ref(r[1])))
        /\ returned' = IF r = None THEN returned
                       ELSE Append(returned, [by |-> t, id |-> r[1],
                                              status |-> jobs[MemIndex(r[1])].status])
        /\ noneMissed' = (noneMissed \/ (r = None /\ \E id \in addDone : Waiting(id)))
    /\ UNCHANGED <<restVars, storeVars, workerVars, addDone, before, calls, updates>>

\* update_job: job = self.jobs.get(job_id); if not job: return
MemUpdateGet(t) ==
    /\ pc[t] = "mu_get"
    /\ IF MemHas(loc[t].args.job_id)
          THEN /\ pc' = [pc EXCEPT ![t] = "mu_write"]
               /\ loc' = [loc EXCEPT ![t].job = Ref(loc[t].args.job_id),
                                     ![t].writes = UpdateWrites(loc[t].args)]
               /\ updates' = updates \cup {Update(loc[t].args)}
          ELSE /\ Return(t, None)
               /\ UNCHANGED updates
    /\ UNCHANGED <<restVars, storeVars, workerVars, returned, addDone, before, noneMissed,
                   calls>>

\* update_job: the body of "with self._lock", one attribute assignment per step;
\* the first takes the lock and the last releases it
MemUpdateWrite(t) ==
    /\ pc[t] = "mu_write"
    /\ lock \in {"free", t}
    /\ LET ws == loc[t].writes
           i == MemIndex(loc[t].job.ref) IN
        IF ws = <<>>
            THEN /\ Return(t, None)
                 /\ UNCHANGED <<jobs, lock, clock>>
            ELSE /\ \E now \in (IF Head(ws) \in {"started_at", "completed_at"}
                                   THEN Now ELSE {clock}) :
                    /\ clock' = now
                    /\ jobs' = [jobs EXCEPT ![i] = ApplyWrite(@, Head(ws), loc[t].args, now)]
                 /\ IF Tail(ws) = <<>>
                       THEN /\ lock' = "free"
                            /\ Return(t, None)
                       ELSE /\ lock' = t
                            /\ loc' = [loc EXCEPT ![t].writes = Tail(ws)]
                            /\ UNCHANGED pc
    /\ UNCHANGED <<restVars, backend, nextId, rkeys, rqueue, workerVars, histVars>>

\* --------------------------------------------------------------- RedisQueue
\* add_job: Job(...) and redis.set(job key, json.dumps(job.to_dict()))
RedisAddSet(t) ==
    /\ pc[t] = "r_add_set"
    /\ \E now \in Now :
        /\ clock' = now
        /\ rkeys' = rkeys @@ (nextId :> to_dict(NewJob(t, now)))
        /\ loc' = [loc EXCEPT ![t].job = NewJob(t, now)]
    /\ nextId' = nextId + 1
    /\ before' = before @@ (nextId :> loc[t].seen)
    /\ pc' = [pc EXCEPT ![t] = "r_add_push"]
    /\ UNCHANGED <<restVars, backend, jobs, lock, rqueue, workerVars, returned, addDone,
                   noneMissed, calls, updates>>

\* add_job: redis.rpush(queue_key, job.id); return job
RedisAddPush(t) ==
    /\ pc[t] = "r_add_push"
    /\ rqueue' = Rpush(rqueue, loc[t].job.id)
    /\ addDone' = addDone \cup {loc[t].job.id}
    /\ Return(t, Some(loc[t].job))
    /\ UNCHANGED <<restVars, backend, clock, nextId, jobs, lock, rkeys, workerVars, returned,
                   before, noneMissed, calls, updates>>

\* what RedisQueue.get_job returns for this id
RedisGet(id) == IF id \in DOMAIN rkeys THEN Some(from_dict(rkeys[id])) ELSE None

\* get_job
RedisGetJob(t) ==
    /\ pc[t] = "r_get"
    /\ Return(t, RedisGet(loc[t].args.job_id))
    /\ UNCHANGED <<restVars, storeVars, workerVars, histVars>>

\* get_next_pending: job_id = redis.lpop(queue_key); if not job_id: return None
RedisNextPop(t) ==
    /\ pc[t] = "r_next_pop"
    /\ IF rqueue = <<>>
          THEN /\ Return(t, None)
               /\ noneMissed' = (noneMissed \/ \E id \in addDone : Waiting(id))
               /\ UNCHANGED rqueue
          ELSE /\ rqueue' = Lpop(rqueue).rest
               /\ pc' = [pc EXCEPT ![t] = "r_next_get"]
               /\ loc' = [loc EXCEPT ![t].args.job_id = Lpop(rqueue).val]
               /\ UNCHANGED noneMissed
    /\ UNCHANGED <<restVars, backend, clock, nextId, jobs, lock, rkeys, workerVars, returned,
                   addDone, before, calls, updates>>

\* get_next_pending: return self.get_job(job_id.decode())
RedisNextGet(t) ==
    /\ pc[t] = "r_next_get"
    /\ Return(t, RedisGet(loc[t].args.job_id))
    /\ returned' = IF RedisGet(loc[t].args.job_id) = None THEN returned
                   ELSE Append(returned, [by |-> t, id |-> loc[t].args.job_id,
                                          status |-> RedisGet(loc[t].args.job_id)[1].status])
    /\ UNCHANGED <<restVars, storeVars, workerVars, addDone, before, noneMissed, calls, updates>>

\* update_job: job = self.get_job(job_id); if not job: return; then the
\* assignments to the local copy
RedisUpdateGet(t) ==
    /\ pc[t] = "ru_get"
    /\ LET got == RedisGet(loc[t].args.job_id)
           ws == UpdateWrites(loc[t].args) IN
        IF got = None
            THEN /\ Return(t, None)
                 /\ UNCHANGED <<clock, updates>>
            ELSE /\ updates' = updates \cup {Update(loc[t].args)}
                 /\ \E now \in (IF \E k \in 1 .. Len(ws) :
                                       ws[k] \in {"started_at", "completed_at"}
                                   THEN Now ELSE {clock}) :
                    /\ clock' = now
                    /\ loc' = [loc EXCEPT ![t].job = ApplyWrites(got[1], ws, loc[t].args, now)]
                 /\ pc' = [pc EXCEPT ![t] = "ru_set"]
    /\ UNCHANGED <<restVars, backend, nextId, jobs, lock, rkeys, rqueue, workerVars,
                   returned, addDone, before, noneMissed, calls>>

\* update_job: redis.set(job key, json.dumps(job.to_dict()))
RedisUpdateSet(t) ==
    /\ pc[t] = "ru_set"
    /\ rkeys' = [rkeys EXCEPT ![loc[t].job.id] = to_dict(loc[t].job)]
    /\ Return(t, None)
    /\ UNCHANGED <<restVars, backend, clock, nextId, jobs, lock, rqueue, workerVars, histVars>>

\* a step inside a store operation
StoreStep(t) ==
    \/ MemAddJob(t)
    \/ MemGetJob(t)
    \/ MemGetNextPending(t)
    \/ MemUpdateGet(t)
    \/ MemUpdateWrite(t)
    \/ RedisAddSet(t)
    \/ RedisAddPush(t)
    \/ RedisGetJob(t)
    \/ RedisNextPop(t)
    \/ RedisNextGet(t)
    \/ RedisUpdateGet(t)
    \/ RedisUpdateSet(t)

\* ------------------------------------------------------------------- worker
\* job.id of the Job a thread holds
JobId(j) == IF "ref" \in DOMAIN j THEN j.ref ELSE j.id

Args(id, status, result, error) ==
    [job_id |-> id, status |-> status, result |-> result, error |-> error, req |-> None]

\* the stages of process_job's try block after the download, in order
NextStage(stage) ==
    CASE stage = "p_diarize" -> "p_transcribe"
      [] stage = "p_transcribe" -> "p_align"
      [] stage = "p_align" -> "p_embed"
      [] stage = "p_embed" -> "p_complete"

\* process_job, first statement of the try block
ProcessingArgs(job) == Args(JobId(job), Some(PROCESSING), None, None)

\* process_job, end of the try block: the result and the update to completed
CompletedArgs(job) ==
    Args(JobId(job), Some(COMPLETED),
         Some([recording_id |-> Deref(job).recording_id]), None)

\* mutant of FailedArgs: the except branch also stores what the try block built
FailedArgsWithResult(job, exc) ==
    Args(JobId(job), Some(FAILED), Some([recording_id |-> Deref(job).recording_id]),
         Some(exc))

\* mutant of FailedArgs: the except branch stores the error and not the status
FailedArgsNoStatus(job, exc) == Args(JobId(job), None, None, Some(exc))

\* process_job, except branch: error_msg and the update to failed
FailedArgs(job, exc) == Args(JobId(job), Some(FAILED), None, Some(exc))

\* mutant of WebhookSuccess: both calls pass success=True
WebhookAlwaysSuccess(exc) == TRUE

\* the success flag process_job passes to send_webhook: True at the end of the
\* try block, False in the except branch
WebhookSuccess(exc) == exc = None

\* mutant of WebhookSwallows: send_webhook has no try/except
WebhookPropagates == FALSE

\* send_webhook catches every Exception of the POST
WebhookSwallows == TRUE

\* mutant of WorkerCatches: the loop has no try/except
WorkerDies == FALSE

\* WorkerThread.run catches every Exception of an iteration
WorkerCatches == TRUE

\* ------------------------------------------------------------- ML engines
\* a loaded pipeline or model object
Loaded == Some("loaded")

\* positions inside load_models and load_model, past the check
LoadingPyannote == {"ld_pipeline", "ld_embedding"}
LoadingWhisper == {"lw_model"}

\* thread t is back from load_models or load_model
LoadReturn(t) ==
    /\ pc' = [pc EXCEPT ![t] = loc[t].ret]
    /\ loc' = [loc EXCEPT ![t].ret = "idle"]

\* load_models: if self.pipeline is not None: return
LoadModelsCheck(t) ==
    /\ pc[t] = "ld_check"
    /\ IF pipeline # None
          THEN LoadReturn(t)
          ELSE /\ pc' = [pc EXCEPT ![t] = "ld_pipeline"]
               /\ UNCHANGED loc
    /\ UNCHANGED <<storeVars, workerVars, histVars, restVars>>

\* load_models: self.pipeline = Pipeline.from_pretrained(...)
LoadPipeline(t) ==
    /\ pc[t] = "ld_pipeline"
    /\ pipeline' = Loaded
    /\ pc' = [pc EXCEPT ![t] = "ld_embedding"]
    /\ UNCHANGED <<storeVars, loc, workerVars, histVars, embedding_model, model, faults,
                   waited, alignVars, queueVars>>

\* load_models: self.embedding_model = Model.from_pretrained(...)
LoadEmbedding(t) ==
    /\ pc[t] = "ld_embedding"
    /\ embedding_model' = Loaded
    /\ LoadReturn(t)
    /\ UNCHANGED <<storeVars, workerVars, histVars, pipeline, model, faults, waited,
                   alignVars, queueVars>>

\* load_model: if self.model is not None: return
LoadModelCheck(t) ==
    /\ pc[t] = "lw_check"
    /\ IF model # None
          THEN LoadReturn(t)
          ELSE /\ pc' = [pc EXCEPT ![t] = "lw_model"]
               /\ UNCHANGED loc
    /\ UNCHANGED <<storeVars, workerVars, histVars, restVars>>

\* load_model: self.model = WhisperModel(...)
LoadWhisper(t) ==
    /\ pc[t] = "lw_model"
    /\ model' = Loaded
    /\ LoadReturn(t)
    /\ UNCHANGED <<storeVars, workerVars, histVars, pipeline, embedding_model, faults,
                   waited, alignVars, queueVars>>

\* run: get_queue(), then get_diarization_service().load_models()
WorkerPreload ==
    /\ pc[Worker] = "w_start"
    /\ pc' = [pc EXCEPT ![Worker] = "ld_check"]
    /\ loc' = [loc EXCEPT ![Worker].ret = "w_preload"]
    /\ UNCHANGED <<restVars, storeVars, workerVars, histVars>>

\* run: get_transcription_service().load_model(), then the loop
WorkerPreloadWhisper ==
    /\ pc[Worker] = "w_preload"
    /\ pc' = [pc EXCEPT ![Worker] = "lw_check"]
    /\ loc' = [loc EXCEPT ![Worker].ret = "w_loop"]
    /\ UNCHANGED <<restVars, storeVars, workerVars, histVars>>

\* mutant of WorkerLoadFail: the preload is wrapped in a try/except that goes on
\* to the loop
WorkerLoadFailIgnored ==
    /\ pc[Worker] \in LoadingPyannote \cup LoadingWhisper
    /\ pc' = [pc EXCEPT ![Worker] = "w_loop"]
    /\ loc' = [loc EXCEPT ![Worker] = NoLocals]
    /\ UNCHANGED <<restVars, storeVars, workerVars, histVars>>

\* run: from_pretrained or WhisperModel raises, outside the loop's try: the
\* thread ends
WorkerLoadFail ==
    /\ pc[Worker] \in LoadingPyannote \cup LoadingWhisper
    /\ pc' = [pc EXCEPT ![Worker] = "w_dead"]
    /\ loc' = [loc EXCEPT ![Worker] = NoLocals]
    /\ UNCHANGED <<restVars, storeVars, workerVars, histVars>>

\* run, before the loop
WorkerStartup ==
    \/ WorkerPreload
    \/ LoadModelsCheck(Worker)
    \/ LoadPipeline(Worker)
    \/ LoadEmbedding(Worker)
    \/ WorkerPreloadWhisper
    \/ LoadModelCheck(Worker)
    \/ LoadWhisper(Worker)
    \/ WorkerLoadFail

\* run: while self.running: job = queue.get_next_pending()
WorkerLoop ==
    /\ pc[Worker] = "w_loop"
    /\ IF running
          THEN Call(Worker, "get_next_pending", NoArgs, "w_got")
          ELSE /\ pc' = [pc EXCEPT ![Worker] = "w_done"]
               /\ UNCHANGED loc
    /\ UNCHANGED <<restVars, storeVars, workerVars, histVars>>

\* run: if job: process_job(job), whose first statement is the update to
\* processing; else: time.sleep(1)
WorkerGot ==
    /\ pc[Worker] = "w_got"
    /\ IF loc[Worker].rv = None
          THEN /\ pc' = [pc EXCEPT ![Worker] = "w_loop"]
               /\ UNCHANGED loc
          ELSE /\ pc' = [pc EXCEPT ![Worker] = Entry("update_job")]
               /\ loc' = [loc EXCEPT ![Worker] =
                            [@ EXCEPT !.held = loc[Worker].rv[1], !.rv = None,
                                      !.resp = None,
                                      !.args = ProcessingArgs(loc[Worker].rv[1]),
                                      !.ret = "p_download"]]
    /\ UNCHANGED <<restVars, storeVars, workerVars, histVars>>

\* an exception raised in the try block of process_job reaches the except
\* branch: error_msg, then queue.update_job(job.id, FAILED, error=error_msg)
Raise(exc) ==
    /\ pc' = [pc EXCEPT ![Worker] = Entry("update_job")]
    /\ loc' = [loc EXCEPT ![Worker] =
                 [@ EXCEPT !.resp = Some(exc), !.rv = None,
                           !.args = FailedArgs(loc[Worker].held, exc),
                           !.ret = "p_webhook"]]

\* download_audio returns the path of the temporary file
DownloadOk ==
    /\ pc[Worker] = "p_download"
    /\ tmpfiles' = tmpfiles \cup {JobId(loc[Worker].held)}
    /\ audio_path' = Some(JobId(loc[Worker].held))
    /\ pc' = [pc EXCEPT ![Worker] = "p_diarize"]
    /\ UNCHANGED <<restVars, storeVars, loc, running, webhooks, posted, caught, histVars>>

\* download_audio raises in httpx.get or raise_for_status: no file was made
DownloadFails ==
    /\ pc[Worker] = "p_download"
    /\ Raise("HTTPError")
    /\ UNCHANGED <<restVars, storeVars, workerVars, histVars>>

Stages == {"p_diarize", "p_transcribe", "p_align", "p_embed"}

\* diarize, transcribe, align_transcript_with_speakers, extract_embeddings return
StageOk ==
    /\ pc[Worker] \in Stages
    /\ IF NextStage(pc[Worker]) = "p_complete"
          THEN /\ pc' = [pc EXCEPT ![Worker] = Entry("update_job")]
               /\ loc' = [loc EXCEPT ![Worker] =
                            [@ EXCEPT !.args = CompletedArgs(loc[Worker].held),
                                      !.rv = None, !.ret = "p_webhook"]]
          ELSE /\ pc' = [pc EXCEPT ![Worker] = NextStage(pc[Worker])]
               /\ UNCHANGED loc
    /\ UNCHANGED <<restVars, storeVars, workerVars, histVars>>

\* one of them raises
StageFails ==
    /\ pc[Worker] \in Stages
    /\ Raise("RuntimeError")
    /\ UNCHANGED <<restVars, storeVars, workerVars, histVars>>

\* send_webhook: one httpx.post; a failed POST is caught and printed.  (Were it
\* not caught, it would leave the try block for the except branch, or leave the
\* except branch for the finally.)
SendWebhook ==
    /\ pc[Worker] = "p_webhook"
    /\ \E delivered \in BOOLEAN :
        /\ webhooks' = Append(webhooks,
                              [job_id |-> JobId(loc[Worker].held),
                               success |-> WebhookSuccess(loc[Worker].resp)])
        /\ posted' = Append(posted, delivered)
        /\ IF delivered \/ WebhookSwallows
              THEN /\ pc' = [pc EXCEPT ![Worker] = "p_finally"]
                   /\ UNCHANGED loc
              ELSE IF loc[Worker].resp = None
                      THEN Raise("webhook")
                      ELSE /\ pc' = [pc EXCEPT ![Worker] = "p_finally"]
                           /\ UNCHANGED loc
    /\ UNCHANGED <<restVars, storeVars, running, audio_path, tmpfiles, caught, histVars>>

\* process_job's finally, then run: the result is dropped, or the exception is
\* caught, printed and followed by time.sleep(1)
Finally ==
    /\ pc[Worker] = "p_finally"
    /\ tmpfiles' = IF audio_path # None THEN tmpfiles \ {audio_path[1]} ELSE tmpfiles
    /\ audio_path' = None
    /\ IF loc[Worker].resp = None
          THEN /\ pc' = [pc EXCEPT ![Worker] = "w_loop"]
               /\ UNCHANGED caught
          ELSE /\ pc' = [pc EXCEPT ![Worker] = IF WorkerCatches THEN "w_loop" ELSE "w_dead"]
               /\ caught' = caught \cup {JobId(loc[Worker].held)}
    /\ loc' = [loc EXCEPT ![Worker] = NoLocals]
    /\ posted' = <<>>
    /\ UNCHANGED <<restVars, storeVars, running, webhooks, histVars>>

WorkerNext ==
    \/ WorkerStartup
    \/ WorkerLoop
    \/ WorkerGot
    \/ DownloadOk
    \/ DownloadFails
    \/ StageOk
    \/ StageFails
    \/ SendWebhook
    \/ Finally
    \/ MemGetNextPending(Worker)
    \/ MemUpdateGet(Worker)
    \/ MemUpdateWrite(Worker)
    \/ RedisNextPop(Worker)
    \/ RedisNextGet(Worker)
    \/ RedisUpdateGet(Worker)
    \/ RedisUpdateSet(Worker)

\* ------------------------------------------------------------- stop_worker
\* _worker.join(timeout=5)
JoinTimeout == 5

\* Thread.is_alive(): run has not returned and has not died
WorkerAlive == pc[Worker] \notin {"w_done", "w_dead"}

\* mutant of StopWorker: stop() leaves the flag as it is
StopWorkerNoFlag ==
    /\ pc[Main] = "serving"
    /\ pc' = [pc EXCEPT ![Main] = "s_join"]
    /\ UNCHANGED <<storeVars, loc, workerVars, histVars, restVars>>

\* stop_worker: _worker.stop() sets running to False, then the join begins
StopWorker ==
    /\ pc[Main] = "serving"
    /\ running' = FALSE
    /\ pc' = [pc EXCEPT ![Main] = "s_join"]
    /\ UNCHANGED <<storeVars, loc, audio_path, tmpfiles, webhooks, posted, caught,
                   histVars, restVars>>

\* join: a second passes and the worker thread is still alive
JoinWaits ==
    /\ pc[Main] = "s_join"
    /\ WorkerAlive
    /\ waited < JoinTimeout
    /\ waited' = waited + 1
    /\ UNCHANGED <<storeVars, threadVars, workerVars, histVars, engineVars, faults,
                   alignVars, queueVars>>

\* join returns, the thread has ended or the timeout has passed; _worker = None
JoinReturns ==
    /\ pc[Main] = "s_join"
    /\ ~WorkerAlive \/ waited = JoinTimeout
    /\ pc' = [pc EXCEPT ![Main] = "s_done"]
    /\ UNCHANGED <<storeVars, loc, workerVars, histVars, restVars>>

StopNext == StopWorker \/ JoinWaits \/ JoinReturns

\* ------------------------------------------------------------------- faults
\* a Redis command of the worker raises (the store is unreachable).  Raised by
\* get_next_pending, it is caught by the loop.  Raised by an update_job of the
\* try block, it reaches the except branch.  Raised by the update_job of the
\* except branch, it leaves process_job through the finally, past send_webhook.
WorkerStoreRaises ==
    /\ backend = "redis"
    /\ pc[Worker] \in {"r_next_pop", "r_next_get", "ru_get", "ru_set"}
    /\ faults < MaxFaults
    /\ faults' = faults + 1
    /\ IF loc[Worker].ret = "w_got"
          THEN /\ pc' = [pc EXCEPT ![Worker] = "w_loop"]
               /\ loc' = [loc EXCEPT ![Worker] = NoLocals]
          ELSE IF loc[Worker].ret = "p_webhook" /\ loc[Worker].resp # None
                  THEN /\ pc' = [pc EXCEPT ![Worker] = "p_finally"]
                       /\ loc' = [loc EXCEPT ![Worker] =
                                    [@ EXCEPT !.args = NoArgs, !.job = None, !.ret = "idle"]]
                  ELSE Raise("ConnectionError")
    /\ UNCHANGED <<storeVars, workerVars, histVars, engineVars, waited, alignVars, queueVars>>

\* download_audio: os.write raises after mkstemp has made the file; the fd is
\* closed, the path is never returned and audio_path stays None
DownloadWriteFails ==
    /\ pc[Worker] = "p_download"
    /\ tmpfiles' = tmpfiles \cup {JobId(loc[Worker].held)}
    /\ Raise("OSError")
    /\ UNCHANGED <<storeVars, running, audio_path, webhooks, posted, caught, histVars,
                   restVars>>

\* ----------------------------------------------------------------- handlers
\* add_job calls begun and not yet past the creation of the Job
Creating == {t \in Threads : pc[t] \in {"m_add", "r_add_set"}}

\* POST /diarize: callback_url = request.callback_url or settings.webhook_url
AddArgs(req) ==
    [ NoArgs EXCEPT !.req =
        Some([recording_id |-> req.recording_id, audio_url |-> req.audio_url,
              callback_url |-> IF req.callback_url = None THEN webhook_url
                               ELSE req.callback_url[1]]) ]

\* diarize_async: queue.add_job(...), then the response
HandlerDiarize(h) ==
    /\ pc[h] = "idle"
    /\ nextId + Cardinality(Creating) <= MaxJobs
    /\ \E req \in Requests : Call(h, "add_job", AddArgs(req), "idle")
    /\ UNCHANGED <<restVars, storeVars, workerVars, histVars>>

\* get_job_status: job = queue.get_job(job_id)
HandlerStatus(h) ==
    /\ pc[h] = "idle"
    /\ \E id \in 1 .. MaxJobs : Call(h, "get_job", Args(id, None, None, None), "h_got")
    /\ UNCHANGED <<restVars, storeVars, workerVars, histVars>>

\* get_job_status reads the attributes of job in this order to build its response
ReadOrder == <<"status", "result", "error", "started_at", "completed_at">>

RECURSIVE ReadAll(_, _, _)
ReadAll(resp, job, fs) ==
    IF fs = <<>> THEN resp
    ELSE ReadAll(resp @@ (Head(fs) :> job[Head(fs)]), job, Tail(fs))

\* get_job_status: if not job: 404
HandlerGot(h) ==
    /\ pc[h] = "h_got"
    /\ IF loc[h].rv = None
          THEN /\ pc' = [pc EXCEPT ![h] = "idle"]
               /\ loc' = [loc EXCEPT ![h] = NoLocals]
          ELSE /\ pc' = [pc EXCEPT ![h] = "h_read"]
               /\ loc' = [loc EXCEPT ![h] =
                            [@ EXCEPT !.held = loc[h].rv[1], !.rv = None,
                                      !.resp = [job_id |-> JobId(loc[h].rv[1])],
                                      !.writes = ReadOrder]]
    /\ UNCHANGED <<restVars, storeVars, workerVars, histVars>>

\* get_job_status: JobStatusResponse(...): one attribute of the live object per
\* step (volatile store), or all of them from the handler's own copy
HandlerRead(h) ==
    /\ pc[h] = "h_read"
    /\ LET fs == loc[h].writes
           one == "ref" \in DOMAIN loc[h].held
           now == IF one THEN <<Head(fs)>> ELSE fs
           left == IF one THEN Tail(fs) ELSE <<>> IN
        /\ loc' = [loc EXCEPT ![h] =
                     [@ EXCEPT !.resp = ReadAll(loc[h].resp, Deref(loc[h].held), now),
                               !.writes = left]]
        /\ pc' = [pc EXCEPT ![h] = IF left = <<>> THEN "h_resp" ELSE "h_read"]
    /\ UNCHANGED <<restVars, storeVars, workerVars, histVars>>

\* get_job_status returns its response
HandlerRespond(h) ==
    /\ pc[h] = "h_resp"
    /\ pc' = [pc EXCEPT ![h] = "idle"]
    /\ loc' = [loc EXCEPT ![h] = NoLocals]
    /\ UNCHANGED <<restVars, storeVars, workerVars, histVars>>

\* diarize_sync: the audio is downloaded to a temporary file
SyncStart(h) ==
    /\ pc[h] = "idle"
    /\ pc' = [pc EXCEPT ![h] = "y_diarize"]
    /\ UNCHANGED <<storeVars, loc, workerVars, histVars, restVars>>

\* diarize_sync, diarize: if self.pipeline is None: self.load_models(); then
\* the pipeline runs
SyncDiarize(h) ==
    /\ pc[h] = "y_diarize"
    /\ IF pipeline = None
          THEN /\ pc' = [pc EXCEPT ![h] = "ld_check"]
               /\ loc' = [loc EXCEPT ![h].ret = "y_transcribe"]
          ELSE /\ pc' = [pc EXCEPT ![h] = "y_transcribe"]
               /\ UNCHANGED loc
    /\ UNCHANGED <<storeVars, workerVars, histVars, restVars>>

\* diarize_sync, transcribe: if self.model is None: self.load_model(); then the
\* model runs and the segments are aligned
SyncTranscribe(h) ==
    /\ pc[h] = "y_transcribe"
    /\ IF model = None
          THEN /\ pc' = [pc EXCEPT ![h] = "lw_check"]
               /\ loc' = [loc EXCEPT ![h].ret = "y_embed"]
          ELSE /\ pc' = [pc EXCEPT ![h] = "y_embed"]
               /\ UNCHANGED loc
    /\ UNCHANGED <<storeVars, workerVars, histVars, restVars>>

\* diarize_sync, extract_embeddings: if self.embedding_model is None:
\* self.load_models()
SyncEmbed(h) ==
    /\ pc[h] = "y_embed"
    /\ IF embedding_model = None
          THEN /\ pc' = [pc EXCEPT ![h] = "ld_check"]
               /\ loc' = [loc EXCEPT ![h].ret = "y_respond"]
          ELSE /\ pc' = [pc EXCEPT ![h] = "y_respond"]
               /\ UNCHANGED loc
    /\ UNCHANGED <<storeVars, workerVars, histVars, restVars>>

\* diarize_sync: the response, or the HTTPException of a step that raised; the
\* finally removes the temporary file
SyncRespond(h) ==
    /\ pc[h] \in {"y_diarize", "y_transcribe", "y_embed", "y_respond"}
                  \cup LoadingPyannote \cup LoadingWhisper
    /\ pc' = [pc EXCEPT ![h] = "idle"]
    /\ loc' = [loc EXCEPT ![h] = NoLocals]
    /\ UNCHANGED <<storeVars, workerVars, histVars, restVars>>

\* POST /diarize/sync
SyncNext(h) ==
    \/ SyncStart(h)
    \/ SyncDiarize(h)
    \/ SyncTranscribe(h)
    \/ SyncEmbed(h)
    \/ SyncRespond(h)
    \/ LoadModelsCheck(h)
    \/ LoadPipeline(h)
    \/ LoadEmbedding(h)
    \/ LoadModelCheck(h)
    \/ LoadWhisper(h)

\* POST /diarize
SubmitNext(h) ==
    \/ HandlerDiarize(h)
    \/ MemAddJob(h)
    \/ RedisAddSet(h)
    \/ RedisAddPush(h)

\* GET /jobs/{job_id}
QueryNext(h) ==
    \/ HandlerStatus(h)
    \/ MemGetJob(h)
    \/ RedisGetJob(h)
    \/ HandlerGot(h)
    \/ HandlerRead(h)
    \/ HandlerRespond(h)

HandlerNext(h) == SubmitNext(h) \/ QueryNext(h)

\* ----------------------------------------------- the service: Init and Next
InitStore0 ==
    /\ backend \in {"memory", "redis"}
    /\ clock = 1
    /\ nextId = 1
    /\ jobs = <<>>
    /\ lock = "free"
    /\ rkeys = <<>>
    /\ rqueue = <<>>
    /\ loc = [t \in Threads |-> NoLocals]
    /\ running = TRUE
    /\ audio_path = None
    /\ tmpfiles = {}
    /\ webhooks = <<>>
    /\ posted = <<>>
    /\ returned = <<>>
    /\ addDone = {}
    /\ before = <<>>
    /\ caught = {}
    /\ noneMissed = FALSE
    /\ calls = 0
    /\ updates = {}
    /\ pipeline = None
    /\ embedding_model = None
    /\ model = None
    /\ faults = 0
    /\ waited = 0
    /\ _queue = None
    /\ qobjects = <<>>
    /\ qlocal = [t \in Threads |-> None]

\* no alignment is called
AlignOff ==
    /\ apc = "off"
    /\ transcript_segments = <<>>
    /\ diarization_segments = <<>>
    /\ aligned_segments = None
    /\ merged_segments = None
    /\ segments = <<>>
    /\ max_gap_arg = None
    /\ merged = None

Init ==
    /\ InitStore0
    /\ AlignOff
    /\ pc = [t \in Threads |->
               IF t = Worker THEN "w_start"
               ELSE IF t = Main THEN "serving"
               ELSE IF t \in Handlers THEN "idle" ELSE "off"]

Next ==
    \/ WorkerNext
    \/ \E h \in Handlers : HandlerNext(h)

Spec == Init /\ [][Next]_vars

\* ------------------------------------- the store alone, called by any client
\* the arguments of update_job that the clients pass
ClientUpdates ==
    { [status |-> Some(PROCESSING), result |-> None, error |-> None],
      [status |-> Some(COMPLETED), result |-> Some([recording_id |-> "rec1"]), error |-> None],
      [status |-> Some(FAILED), result |-> None, error |-> Some("RuntimeError")],
      [status |-> None, result |-> None, error |-> None] }

ClientAdd(c) ==
    /\ nextId + Cardinality(Creating) <= MaxJobs
    /\ \E req \in Requests : Call(c, "add_job", AddArgs(req), "idle")

ClientGet(c) ==
    \E id \in 1 .. MaxJobs : Call(c, "get_job", Args(id, None, None, None), "idle")

ClientNext(c) == Call(c, "get_next_pending", NoArgs, "idle")

ClientUpdate(c) ==
    \E id \in 1 .. MaxJobs, u \in ClientUpdates :
        Call(c, "update_job", Args(id, u.status, u.result, u.error), "idle")

\* a client calls one operation of the store
ClientCall(c) ==
    /\ pc[c] = "idle"
    /\ calls < MaxCalls
    /\ calls' = calls + 1
    /\ (ClientAdd(c) \/ ClientGet(c) \/ ClientNext(c) \/ ClientUpdate(c))
    /\ UNCHANGED <<restVars, storeVars, workerVars, returned, addDone, before, noneMissed, updates>>

InitStore ==
    /\ InitStore0
    /\ AlignOff
    /\ pc = [t \in Threads |-> IF t \in Clients THEN "idle" ELSE "off"]

\* time passes between two readings of datetime.utcnow()
Tick ==
    /\ clock < MaxClock
    /\ clock' = clock + 1
    /\ UNCHANGED <<restVars, backend, nextId, jobs, lock, rkeys, rqueue, threadVars, workerVars,
                   histVars>>

NextStore ==
    \/ \E c \in Clients : (ClientCall(c) \/ StoreStep(c))
    \/ Tick

SpecStore == InitStore /\ [][NextStore]_vars

\* The worker and the submissions, for the properties of progress.  The status
\* queries are left out: they take no lock and write nothing, so they cannot
\* hold the worker back.  WorkerThread.run is a thread of its own: it keeps
\* taking steps.
NextSubmit ==
    \/ WorkerNext
    \/ \E h \in Handlers : SubmitNext(h)

FairSpec == Init /\ [][NextSubmit]_vars /\ WF_vars(WorkerNext)

\* ---------------------------------------------------------------- alignment
\* Times are whole numbers of seconds.  A text is the sequence of its pieces,
\* the separating space being a piece of its own.
Max(a, b) == IF a >= b THEN a ELSE b
Min(a, b) == IF a <= b THEN a ELSE b

\* merge_consecutive_speaker_segments(segments, max_gap: float = 1.0)
max_gap == 1

Speakers == {"A", "B"}
Texts == <<"hi", "there", "all", "of", "you">>

\* valid intervals: start <= end
Intervals == {iv \in (0 .. MaxTime) \X (0 .. MaxTime) : iv[1] <= iv[2]}

\* the i-th segment of whisper: its text and its words go with its position
TransSeg(i, iv) ==
    [start |-> iv[1], end |-> iv[2], text |-> <<Texts[i]>>, words |-> <<Texts[i]>>]

\* a segment of pyannote
DiarSeg(iv, sp) == [start |-> iv[1], end |-> iv[2], speaker |-> sp]

\* the list of whisper's segments with the intervals f
TransList(f) == [i \in DOMAIN f |-> TransSeg(i, f[i])]

DiarSegs == {DiarSeg(iv, sp) : iv \in Intervals, sp \in Speakers}

\* overlap = max(0, overlap_end - overlap_start)
Overlap(t, d) == Max(0, Min(t.end, d.end) - Max(t.start, d.start))

\* the first loop over the diarization segments: a segment takes over only
\* with an overlap strictly larger than the best so far
\* if overlap > best_overlap
BetterOrEqual(overlap, best_overlap) == overlap >= best_overlap

Better(overlap, best_overlap) == overlap > best_overlap

RECURSIVE ScanOverlap(_, _, _)
ScanOverlap(t, D, best) ==
    IF D = <<>> THEN best
    ELSE ScanOverlap(t, Tail(D),
                     IF Better(Overlap(t, Head(D)), best.best_overlap)
                        THEN [best_overlap |-> Overlap(t, Head(D)),
                              best_speaker |-> Some(Head(D).speaker)]
                        ELSE best)

\* the second loop: the first segment with start <= trans_mid <= end, where
\* trans_mid = (trans_start + trans_end) / 2 (both sides doubled here)
RECURSIVE ScanMidpoint(_, _)
ScanMidpoint(t, D) ==
    IF D = <<>> THEN None
    ELSE IF 2 * Head(D).start <= t.start + t.end /\ t.start + t.end <= 2 * Head(D).end
            THEN Some(Head(D).speaker)
            ELSE ScanMidpoint(t, Tail(D))

\* best_speaker after both loops
BestSpeaker(t, D) ==
    LET best == ScanOverlap(t, D, [best_overlap |-> 0, best_speaker |-> None]) IN
        IF best.best_speaker = None THEN ScanMidpoint(t, D) ELSE best.best_speaker

\* best_speaker or "UNKNOWN"
SpeakerOr(sp) == IF sp = None \/ sp = Some("") THEN "UNKNOWN" ELSE sp[1]

\* the dict appended to aligned_segments for one transcript segment
AlignedSegment(t, D) ==
    [start |-> t.start, end |-> t.end, speaker |-> SpeakerOr(BestSpeaker(t, D)),
     text |-> t.text, words |-> t.words]

\* the for loop of align_transcript_with_speakers
PhaseA(T, D) == [i \in 1 .. Len(T) |-> AlignedSegment(T[i], D)]

\* A variable that holds a dict: its value and, when the dict is one of the
\* dicts of the list passed in, its position there (0 for a dict of its own).
\* dict.copy() makes a dict of its own; the words list inside is shared, and
\* is only ever replaced, never changed in place.
CopyAliased(segs, i) == [val |-> segs[i], same |-> i]

Copy(segs, i) == [val |-> segs[i], same |-> 0]

\* an assignment to a key of current shows in the caller's list when current
\* is one of its dicts
Store(segs, cur, new) == IF cur.same = 0 THEN segs ELSE [segs EXCEPT ![cur.same] = new]

\* same_speaker and gap <= max_gap
SameRunStrict(current, seg, gap) ==
    seg.speaker = current.speaker /\ seg.start - current.end < gap

SameRunByEnd(current, seg, gap) ==
    seg.speaker = current.speaker /\ seg.end - current.end <= gap

SameRun(current, seg, gap) ==
    seg.speaker = current.speaker /\ seg.start - current.end <= gap

\* Merge: extend current segment
ExtendNoSpace(current, seg) ==
    [current EXCEPT !.end = seg.end,
                    !.text = current.text \o seg.text,
                    !.words = current.words \o seg.words]

Extend(current, seg) ==
    [current EXCEPT !.end = seg.end,
                    !.text = current.text \o <<" ">> \o seg.text,
                    !.words = current.words \o seg.words]

\* the for loop of merge_consecutive_speaker_segments from segments[i] on:
\* what it returns and what it leaves in the caller's list
RECURSIVE MergeLoop(_, _, _, _, _)
MergeLoop(segs, i, out, cur, gap) ==
    IF i > Len(segs) THEN [merged |-> Append(out, cur.val), segments |-> segs]
    ELSE LET seg == segs[i] IN
         IF SameRun(cur.val, seg, gap)
            THEN LET new == Extend(cur.val, seg) IN
                 MergeLoop(Store(segs, cur, new), i + 1, out, [cur EXCEPT !.val = new], gap)
            ELSE MergeLoop(segs, i + 1, Append(out, cur.val), Copy(segs, i), gap)

\* one run of the function on a non-empty list
MergeRun(segs, gap) == MergeLoop(segs, 2, <<>>, Copy(segs, 1), gap)

merge_consecutive_speaker_segments(segs, gap) ==
    IF segs = <<>> THEN <<>> ELSE MergeRun(segs, gap).merged

\* the first statement returns [] before any segment is aligned
ReturnsEarlyNoTranscript(T, D) == T = <<>>

ReturnsEarly(T, D) == T = <<>> \/ D = <<>>

align_transcript_with_speakers(T, D) ==
    IF ReturnsEarly(T, D) THEN <<>>
    ELSE merge_consecutive_speaker_segments(PhaseA(T, D), max_gap)

\* one call of align_transcript_with_speakers
Align ==
    /\ apc = "called"
    /\ apc' = "returned"
    /\ aligned_segments' =
          IF ReturnsEarly(transcript_segments, diarization_segments) THEN None
          ELSE Some(PhaseA(transcript_segments, diarization_segments))
    /\ merged_segments' =
          Some(align_transcript_with_speakers(transcript_segments, diarization_segments))
    /\ UNCHANGED <<storeVars, threadVars, workerVars, histVars, engineVars, faults, waited,
                   queueVars,
                   transcript_segments, diarization_segments, segments, max_gap_arg,
                   merged>>

\* the inputs of a call of align_transcript_with_speakers with at most maxT
\* transcript segments
AlignCalled(maxT) ==
    /\ InitStore0
    /\ backend = "memory"
    /\ pc = [t \in Threads |-> "off"]
    /\ apc = "called"
    /\ \E n \in 0 .. maxT : \E f \in [1 .. n -> Intervals] :
          transcript_segments = TransList(f)
    /\ \E n \in 0 .. MaxDiar : diarization_segments \in [1 .. n -> DiarSegs]
    /\ aligned_segments = None
    /\ merged_segments = None
    /\ segments = <<>>
    /\ max_gap_arg = None
    /\ merged = None

\* an aligned segment as the loop of align_transcript_with_speakers builds it
AlignedSeg(i, iv, sp) ==
    [start |-> iv[1], end |-> iv[2], speaker |-> sp, text |-> <<Texts[i]>>,
     words |-> <<Texts[i]>>]

\* the list of aligned segments with the intervals and speakers f
SegList(f) == [i \in DOMAIN f |-> AlignedSeg(i, f[i][1], f[i][2])]

\* the values of max_gap tried: the default and the one below it
Gaps == {max_gap - 1, max_gap}

\* one call of merge_consecutive_speaker_segments
Merge ==
    /\ apc = "merge_called"
    /\ apc' = "merge_returned"
    /\ merged' = Some(merge_consecutive_speaker_segments(segments, max_gap_arg[1]))
    /\ segments' = IF segments = <<>> THEN segments
                   ELSE MergeRun(segments, max_gap_arg[1]).segments
    /\ UNCHANGED <<storeVars, threadVars, workerVars, histVars, engineVars, faults, waited,
                   queueVars,
                   transcript_segments, diarization_segments, aligned_segments,
                   merged_segments, max_gap_arg>>

InitMerge ==
    /\ InitStore0
    /\ backend = "memory"
    /\ pc = [t \in Threads |-> "off"]
    /\ apc = "merge_called"
    /\ transcript_segments = <<>>
    /\ diarization_segments = <<>>
    /\ aligned_segments = None
    /\ merged_segments = None
    /\ \E n \in 0 .. MaxSegs : \E f \in [1 .. n -> Intervals \X Speakers] :
          segments = SegList(f)
    /\ max_gap_arg \in {Some(g) : g \in Gaps}
    /\ merged = None

\* a second call, on the list the first call returned, with the same max_gap
MergeAgain ==
    /\ apc = "merge_returned"
    /\ apc' = "merged_again"
    /\ merged' = Some(merge_consecutive_speaker_segments(merged[1], max_gap_arg[1]))
    /\ segments' = IF merged[1] = <<>> THEN merged[1]
                   ELSE MergeRun(merged[1], max_gap_arg[1]).segments
    /\ UNCHANGED <<storeVars, threadVars, workerVars, histVars, engineVars, faults, waited,
                   queueVars,
                   transcript_segments, diarization_segments, aligned_segments,
                   merged_segments, max_gap_arg>>

NextMerge ==
    \/ Merge
    \/ MergeAgain

SpecMerge == InitMerge /\ [][NextMerge]_vars

\* calls of either function of the alignment module
NextAlignment ==
    \/ Align
    \/ Merge

SpecAlignment == (AlignCalled(MaxTrans) \/ InitMerge) /\ [][NextAlignment]_vars

\* calls of align_transcript_with_speakers with up to MaxMany transcript segments
SpecAlignMany == AlignCalled(MaxMany) /\ [][Align]_vars

InitAlign == AlignCalled(MaxTrans)

SpecAlign == InitAlign /\ [][Align]_vars

\* the start of the service: the worker preloads the engines while synchronous
\* requests, which use the same engines, are served
NextLoad ==
    \/ WorkerStartup
    \/ \E h \in Handlers : SyncNext(h)

SpecLoad == Init /\ [][NextLoad]_vars

\* the service with its shutdown: stop_worker is called at some moment
NextStop ==
    \/ NextSubmit
    \/ StopNext

\* the worker thread and the thread in stop_worker both keep taking steps
FairStop == Init /\ [][NextStop]_vars /\ WF_vars(WorkerNext) /\ WF_vars(StopNext)

\* the service with a disk that fills up while the audio is written
NextDisk ==
    \/ NextSubmit
    \/ DownloadWriteFails

SpecDisk == Init /\ [][NextDisk]_vars

\* the service with its shutdown, an unreachable durable store and a disk that
\* fills up
WorkerFaults == WorkerStoreRaises \/ DownloadWriteFails

NextFault ==
    \/ NextStop
    \/ WorkerFaults

SpecFault == Init /\ [][NextFault]_vars

FairFault == SpecFault /\ WF_vars(WorkerNext \/ WorkerFaults) /\ WF_vars(StopNext)

\* ------------------------------------------------------------------ get_queue
\* get_queue: if _queue is None
GetQueueCheck(t) ==
    /\ pc[t] = "gq_check"
    /\ pc' = [pc EXCEPT ![t] = IF _queue = None THEN "gq_make" ELSE "gq_return"]
    /\ UNCHANGED <<storeVars, loc, workerVars, histVars, restVars>>

\* get_queue: _queue = RedisQueue(settings.redis_url) or _queue = InMemoryQueue()
GetQueueMake(t) ==
    /\ pc[t] = "gq_make"
    /\ qobjects' = Append(qobjects, {})
    /\ _queue' = Some(Len(qobjects) + 1)
    /\ pc' = [pc EXCEPT ![t] = "gq_return"]
    /\ UNCHANGED <<storeVars, loc, workerVars, histVars, engineVars, faults, waited,
                   alignVars, qlocal>>

\* get_queue: return _queue; run goes on to its loop, diarize_async to add_job
GetQueueReturn(t) ==
    /\ pc[t] = "gq_return"
    /\ qlocal' = [qlocal EXCEPT ![t] = _queue]
    /\ pc' = [pc EXCEPT ![t] = IF t = Worker THEN "q_loop" ELSE "q_add"]
    /\ UNCHANGED <<storeVars, loc, workerVars, histVars, engineVars, faults, waited,
                   alignVars, _queue, qobjects>>

\* the ids a queue object can hand out: the jobs of its own dict, or with
\* Redis the jobs of the one server every RedisQueue talks to
JobsIn(q) ==
    IF backend = "memory" THEN qobjects[q]
    ELSE UNION {qobjects[i] : i \in 1 .. Len(qobjects)}

\* POST /diarize arrives: queue = get_queue()
QueueRequest(h) ==
    /\ pc[h] = "idle"
    /\ nextId <= MaxJobs
    /\ pc' = [pc EXCEPT ![h] = "gq_check"]
    /\ UNCHANGED <<storeVars, loc, workerVars, histVars, restVars>>

\* diarize_async: job = queue.add_job(...) on the object get_queue returned
QueueAdd(h) ==
    /\ pc[h] = "q_add"
    /\ qobjects' = [qobjects EXCEPT ![qlocal[h][1]] = @ \cup {nextId}]
    /\ nextId' = nextId + 1
    /\ addDone' = addDone \cup {nextId}
    /\ pc' = [pc EXCEPT ![h] = "idle"]
    /\ UNCHANGED <<backend, clock, jobs, lock, rkeys, rqueue, loc, workerVars, returned,
                   before, noneMissed, calls, updates, engineVars, faults, waited,
                   alignVars, _queue, qlocal>>

\* run: job = queue.get_next_pending() on the object run got before the loop
QueuePoll ==
    /\ pc[Worker] = "q_loop"
    /\ \E id \in JobsIn(qlocal[Worker][1]) \ ReturnedIds :
          returned' = Append(returned, [by |-> Worker, id |-> id, status |-> PENDING])
    /\ UNCHANGED <<storeVars, threadVars, workerVars, addDone, before, noneMissed, calls,
                   updates, restVars>>

\* the worker thread has just been started and the handlers take requests
InitQueue ==
    /\ InitStore0
    /\ AlignOff
    /\ pc = [t \in Threads |->
               IF t = Worker THEN "gq_check" ELSE IF t \in Handlers THEN "idle" ELSE "off"]

NextQueue ==
    \/ \E t \in {Worker} \cup Handlers :
          \/ GetQueueCheck(t)
          \/ GetQueueMake(t)
          \/ GetQueueReturn(t)
    \/ \E h \in Handlers :
          \/ QueueRequest(h)
          \/ QueueAdd(h)
    \/ QueuePoll

SpecQueue == InitQueue /\ [][NextQueue]_vars

\* ------------------------------------------------------------------ claims
Terminal == {COMPLETED, FAILED}

StatusOf(id) == Stored(id).status

\* the job the worker has dequeued and not yet finished with
InFlight ==
    IF loc[Worker].held # None THEN {JobId(loc[Worker].held)}
    ELSE IF pc[Worker] = "w_got" /\ loc[Worker].rv # None THEN {JobId(loc[Worker].rv[1])}
    ELSE {}

\* jobs whose process_job has returned or raised
Finished == ReturnedIds \ InFlight

\* the POSTs attempted for a job
PostsOf(id) == {i \in 1 .. Len(webhooks) : webhooks[i].job_id = id}

\* the worker is inside queue.get_next_pending()
Dequeuing == pc[Worker] \in {"m_next", "r_next_pop", "r_next_get"}

C2_NeverTwice ==
    \A i \in 1 .. Len(returned), k \in 1 .. Len(returned) :
        returned[i].id = returned[k].id => i = k

\* C3: in the durable store no job id is received by two get_next_pending
\* calls, however the consumers and add_job interleave.
C3_ExactlyOnce ==
    backend = "redis" =>
        \A i \in 1 .. Len(returned) :
            \A k \in (i + 1) .. Len(returned) : returned[k].id # returned[i].id

\* C3 witness: two consumers are inside get_next_pending at once, one has popped
\* a job id and the other is about to pop.
C3_Witness ==
    /\ backend = "redis"
    /\ \E c \in Clients, d \in Clients :
        /\ pc[c] = "r_next_get"
        /\ pc[d] = "r_next_pop"

\* what a client may never see in a job it reads
Partial(r) ==
    \/ r.status = PROCESSING /\ r.started_at = None
    \/ r.status \in Terminal /\ r.completed_at = None

\* C4: the job a status query reads is never partially updated: not processing
\* without started_at, not completed or failed without completed_at.
C4_NoPartialRead ==
    \A h \in Handlers : pc[h] = "h_resp" => ~Partial(loc[h].resp)

\* C5: in every state of every stored job, started_at is set exactly when the
\* status is processing, completed or failed, and completed_at exactly when it
\* is completed or failed.
C5_TimestampsMatchStatus ==
    \A id \in StoredIds :
        /\ Stored(id).started_at # None <=> StatusOf(id) \in {PROCESSING} \cup Terminal
        /\ Stored(id).completed_at # None <=> StatusOf(id) \in Terminal

\* a failed job as the claim wants it: an error text and no result
FailedCleanly(id) ==
    /\ StatusOf(id) = FAILED
    /\ Stored(id).error # None
    /\ Stored(id).error[1] # ""
    /\ Stored(id).result = None

C11_RunsToEnd ==
    \A id \in 1 .. MaxJobs :
        (id \in ReturnedIds) ~> (IsStored(id) /\ StatusOf(id) \in Terminal)

AllLoaded == pipeline # None /\ embedding_model # None /\ model # None

\* the worker is in run, before the loop
Preloading ==
    pc[Worker] \in {"w_start", "ld_check", "w_preload", "lw_check"}
                     \cup LoadingPyannote \cup LoadingWhisper

InLoadModels == {t \in Threads : pc[t] \in LoadingPyannote}
InLoadModel == {t \in Threads : pc[t] \in LoadingWhisper}

\* C14: no engine is loaded twice: two threads are never inside the load of the
\* same engine, and no thread starts to load an engine that is loaded.
C14_LoadedOnce ==
    /\ Cardinality(InLoadModels) <= 1
    /\ Cardinality(InLoadModel) <= 1
    /\ \A t \in Threads :
          /\ pc[t] = "ld_pipeline" => pipeline = None
          /\ pc[t] = "lw_model" => model = None

\* what update_job may change of a job
Project(job) == [status |-> job.status, result |-> job.result, error |-> job.error]

\* the job as add_job stored it
AsAdded(job) ==
    [job EXCEPT !.status = PENDING, !.result = None, !.error = None,
                !.started_at = None, !.completed_at = None]

\* what the job can be after the updates U, applied one after another in any order
RECURSIVE Outcomes(_, _)
Outcomes(job, U) ==
    IF U = {} THEN {Project(job)}
    ELSE UNION {Outcomes(ApplyWrites(job, UpdateWrites(u), u, clock), U \ {u}) : u \in U}

\* the threads inside an update_job that found this job
Updating(id) ==
    {t \in Threads : pc[t] \in {"mu_write", "ru_set"} /\ loc[t].args.job_id = id}

\* C15: whenever no update_job is under way on a job, its status, result and
\* error are those left by the update_job calls made on it so far, applied one
\* after another in some order: no update is lost.
C15_Linearizable ==
    \A id \in StoredIds :
        Updating(id) = {} =>
            Project(Stored(id))
                \in Outcomes(AsAdded(Stored(id)), {u \in updates : u.job_id = id})

\* C16: once process_job has returned or raised for a job, no temporary file made
\* for that job exists, whichever step failed, the audio fetch included.
C16_TempReleased == \A id \in Finished : id \notin tmpfiles

\* a job as add_job creates it
Pristine(j) ==
    /\ j.status = PENDING
    /\ j.started_at = None
    /\ j.completed_at = None
    /\ j.result = None
    /\ j.error = None

\* what a get_job(id) returns when it returns now
GetJobNow(id) ==
    IF backend = "memory"
        THEN (IF MemHas(id) THEN Some(Deref(Ref(id))) ELSE None)
        ELSE RedisGet(id)

\* no update_job has found this job
Untouched(id) == \A u \in updates : u.job_id # id

\* C17: a get_job on the id an add_job returned, with no update_job on it in
\* between, returns a job with that id, pending, with started_at, completed_at,
\* result and error unset, whatever add_job calls run at the same time; no two
\* jobs ever created share an id.
C17_AddThenGet ==
    /\ \A t \in Threads :
          (/\ pc[t] \in {"m_get", "r_get"}
           /\ loc[t].args.job_id \in addDone
           /\ Untouched(loc[t].args.job_id))
          => /\ GetJobNow(loc[t].args.job_id) # None
             /\ GetJobNow(loc[t].args.job_id)[1].id = loc[t].args.job_id
             /\ loc[t].args.job_id \in 1 .. (nextId - 1)
             /\ Pristine(GetJobNow(loc[t].args.job_id)[1])
    /\ \A i \in 1 .. Len(jobs), k \in 1 .. Len(jobs) : jobs[i].id = jobs[k].id => i = k
    /\ \A id \in DOMAIN rkeys : rkeys[id].id = id
    /\ Cardinality(StoredIds) = nextId - 1

\* C17 witness: a get_job on an added job is about to return while another
\* add_job is under way.
C17_Witness ==
    \E t \in Threads, d \in Threads :
        /\ pc[t] \in {"m_get", "r_get"}
        /\ loc[t].args.job_id \in addDone
        /\ Untouched(loc[t].args.job_id)
        /\ pc[d] \in {"m_add", "r_add_set", "r_add_push"}

\* the timestamps of a job
Stamps(j) == <<j.started_at, j.completed_at>>

\* what the claim says of one update_job with arguments a that turns job j into k
StampsRight(a, j, k) ==
    /\ a.status = Some(PROCESSING) =>
          /\ k.started_at # None
          /\ j.started_at # None => k.started_at = j.started_at
    /\ (a.status # None /\ a.status[1] \in Terminal) => k.completed_at # None
    /\ a.status = None => Stamps(k) = Stamps(j)

\* thread t makes one of the assignments of InMemoryQueue.update_job in this step
Wrote(t) == pc[t] = "mu_write" /\ loc'[t].writes # loc[t].writes

\* C18: update_job with status processing stamps started_at only if it is unset
\* and leaves a started_at that is set as it is; with status completed or
\* failed it stamps completed_at; without a status it changes no timestamp.
\* Durable store: the copy update_job writes back against the record it read;
\* volatile store: every assignment against the job before it.
C18_Stamps ==
    [][\A t \in Threads :
          /\ (pc[t] = "ru_get" /\ pc'[t] = "ru_set")
                => StampsRight(loc[t].args, RedisGet(loc[t].args.job_id)[1], loc'[t].job)
          /\ Wrote(t) =>
                LET f == Head(loc[t].writes)
                    a == loc[t].args
                    j == jobs[MemIndex(a.job_id)]
                    k == jobs'[MemIndex(a.job_id)]
                IN  /\ f = "started_at" =>
                          /\ a.status = Some(PROCESSING)
                          /\ k.started_at # None
                          /\ j.started_at # None => k.started_at = j.started_at
                    /\ f = "completed_at" => k.completed_at # None
                    /\ f \notin {"started_at", "completed_at"} => Stamps(k) = Stamps(j)
                    /\ (f = "status" /\ a.status = Some(PROCESSING))
                          => Head(loc'[t].writes) = "started_at"
                    /\ (f = "status" /\ a.status[1] \in Terminal)
                          => Head(loc'[t].writes) = "completed_at"]_vars

\* what no operation may change of a job
Identity(j) == <<j.id, j.recording_id, j.audio_url, j.callback_url, j.created_at>>

\* thread t takes a step inside update_job
UpdateStep(t) ==
    /\ pc[t] \in {"mu_get", "mu_write", "ru_get", "ru_set"}
    /\ pc'[t] # pc[t] \/ loc'[t] # loc[t]

\* C19: an update_job on an id that is not stored returns normally and changes
\* nothing in the store; a step of update_job changes no job but its own and
\* not the pending list; no step of any operation removes a stored job or
\* changes its id, recording_id, audio_url, callback_url or created_at.
C19_Frame ==
    [][/\ <<jobs, rkeys>>' # <<jobs, rkeys>> =>
             \A id \in StoredIds :
                /\ IsStored(id)'
                /\ Identity(Stored(id))' = Identity(Stored(id))
       /\ \A t \in Threads :
             UpdateStep(t) =>
                /\ rqueue' = rqueue
                /\ <<jobs, rkeys>>' # <<jobs, rkeys>> =>
                      \A id \in StoredIds \ {loc[t].args.job_id} : Stored(id)' = Stored(id)
                /\ ~IsStored(loc[t].args.job_id) =>
                      /\ pc'[t] = loc[t].ret
                      /\ <<jobs, rkeys, lock>>' = <<jobs, rkeys, lock>>]_vars

\* C19 witness: an update_job on an id that is not stored is about to look its
\* job up, after another job was updated.
C19_Witness ==
    \E t \in Threads :
        /\ pc[t] \in {"mu_get", "ru_get"}
        /\ ~IsStored(loc[t].args.job_id)
        /\ \E u \in updates : IsStored(u.job_id) /\ Stored(u.job_id).status # PENDING

\* the aligned segments the call has produced before merging
Assigned == IF aligned_segments = None THEN <<>> ELSE aligned_segments[1]

\* C20: for segments with start <= end, speaker assignment yields one aligned
\* segment per transcript segment, in transcript order, with that segment's
\* start, end and text.
C20_OnePerSegment ==
    apc = "returned" =>
        /\ Len(Assigned) = Len(transcript_segments)
        /\ \A i \in 1 .. Len(Assigned) :
              /\ Assigned[i].start = transcript_segments[i].start
              /\ Assigned[i].end = transcript_segments[i].end
              /\ Assigned[i].text = transcript_segments[i].text

\* C21: when the diarization list is empty, every transcript segment gets one
\* aligned segment and its speaker is "UNKNOWN".
C21_EmptyDiarUnknown ==
    (apc = "returned" /\ diarization_segments = <<>>) =>
        /\ Len(Assigned) = Len(transcript_segments)
        /\ \A i \in 1 .. Len(Assigned) : Assigned[i].speaker = "UNKNOWN"

\* C22: align_transcript_with_speakers returns the empty list when the
\* transcript list or the diarization list is empty, and
\* merge_consecutive_speaker_segments returns the empty list for an empty list.
C22_EmptyInEmptyOut ==
    /\ (apc = "returned" /\ (transcript_segments = <<>> \/ diarization_segments = <<>>)) =>
          merged_segments = Some(<<>>)
    /\ (apc = "merge_returned" /\ segments = <<>>) => merged = Some(<<>>)

C22_Witness ==
    /\ apc = "returned"
    /\ transcript_segments # <<>>
    /\ diarization_segments = <<>>
    /\ merged_segments = Some(<<>>)

\* the length of time two segments share, counted in whole seconds
Shared(t, d) ==
    Cardinality({x \in 0 .. MaxTime - 1 :
                   /\ t.start <= x /\ x + 1 <= t.end
                   /\ d.start <= x /\ x + 1 <= d.end})

\* the diarization segment with the largest share of t, the earliest of them
Winner(t, D, j) ==
    /\ Shared(t, D[j]) > 0
    /\ \A k \in 1 .. Len(D) : Shared(t, D[k]) <= Shared(t, D[j])
    /\ \A k \in 1 .. j - 1 : Shared(t, D[k]) < Shared(t, D[j])

\* C23: a transcript segment that overlaps some diarization segment gets the
\* speaker of the diarization segment with the largest overlap, and among
\* several with that overlap the speaker of the earliest in the list.
C23_LargestOverlap ==
    apc = "returned" =>
        \A i \in 1 .. Len(transcript_segments) :
            \A j \in 1 .. Len(diarization_segments) :
                Winner(transcript_segments[i], diarization_segments, j) =>
                    /\ Len(Assigned) >= i
                    /\ Assigned[i].speaker = diarization_segments[j].speaker

\* two segments of different speakers share the largest overlap
C23_Witness ==
    /\ apc = "returned"
    /\ Len(transcript_segments) = 1
    /\ Len(diarization_segments) = 2
    /\ Winner(transcript_segments[1], diarization_segments, 1)
    /\ Shared(transcript_segments[1], diarization_segments[2]) =
          Shared(transcript_segments[1], diarization_segments[1])
    /\ diarization_segments[1].speaker # diarization_segments[2].speaker
    /\ Assigned[1].speaker = diarization_segments[1].speaker

\* d fully contains t
Contains(d, t) == d.start <= t.start /\ t.end <= d.end

\* D[j] is the one diarization segment that contains every transcript segment
OnlyContainer(T, D, j) ==
    /\ \A i \in 1 .. Len(T) : Contains(D[j], T[i])
    /\ \A k \in (1 .. Len(D)) \ {j} : \E i \in 1 .. Len(T) : ~Contains(D[k], T[i])

\* C24: when exactly one diarization segment contains all transcript segments,
\* every transcript segment gets that segment's speaker, wherever the other
\* diarization segments are in the list and also for transcript segments of
\* length zero.
C24_OneContainer ==
    apc = "returned" =>
        \A j \in 1 .. Len(diarization_segments) :
            OnlyContainer(transcript_segments, diarization_segments, j) =>
                /\ Len(Assigned) = Len(transcript_segments)
                /\ \A i \in 1 .. Len(Assigned) :
                      Assigned[i].speaker = diarization_segments[j].speaker

\* C25: merge_consecutive_speaker_segments applied to its own output, with the
\* same max_gap, returns that output unchanged.
C25_MergeIdempotent == [][MergeAgain => merged' = merged]_vars

\* the first call merged two segments and returned more than one
C25_Witness ==
    /\ apc = "merged_again"
    /\ Len(merged[1]) >= 2
    /\ \E k \in 1 .. Len(merged[1]) : Len(merged[1][k].words) >= 2

\* the places of a list where a segment does not continue the one before it
Breaks(segs, g) ==
    {i \in 1 .. Len(segs) - 1 :
        \/ segs[i + 1].speaker # segs[i].speaker
        \/ segs[i + 1].start - segs[i].end > g}

\* C26: adjacent segments of one speaker are merged when the next one starts at
\* most max_gap after the current one ends (also when it starts before that
\* end) and kept apart when it starts later; segments of different speakers
\* are never merged; max_gap is an argument of the call.
C26_GapBoundary ==
    (apc = "merge_returned" /\ segments # <<>>) =>
        Len(merged[1]) = 1 + Cardinality(Breaks(segments, max_gap_arg[1]))

\* two segments of one speaker exactly max_gap apart became one, with a
\* max_gap that is not the default
C26_Witness ==
    /\ apc = "merge_returned"
    /\ Len(segments) = 2
    /\ max_gap_arg # Some(max_gap)
    /\ segments[1].speaker = segments[2].speaker
    /\ segments[2].start - segments[1].end = max_gap_arg[1]
    /\ Len(merged[1]) = 1

\* the closed interval of d holds the midpoint of t
HoldsMidpoint(d, t) == 2 * d.start <= t.start + t.end /\ t.start + t.end <= 2 * d.end

\* the speaker the midpoint rule gives t
ByMidpoint(t, D, sp) ==
    IF \E j \in 1 .. Len(D) : HoldsMidpoint(D[j], t)
       THEN \E j \in 1 .. Len(D) :
               /\ HoldsMidpoint(D[j], t)
               /\ \A k \in 1 .. j - 1 : ~HoldsMidpoint(D[k], t)
               /\ sp = D[j].speaker
       ELSE sp = "UNKNOWN"

\* C27: a transcript segment that overlaps no diarization segment gets the
\* speaker of the first diarization segment whose closed interval holds its
\* midpoint, and "UNKNOWN" when there is none.
C27_MidpointOrUnknown ==
    apc = "returned" =>
        \A i \in 1 .. Len(transcript_segments) :
            (\A j \in 1 .. Len(diarization_segments) :
                Shared(transcript_segments[i], diarization_segments[j]) = 0) =>
                /\ Len(Assigned) >= i
                /\ ByMidpoint(transcript_segments[i], diarization_segments,
                              Assigned[i].speaker)

\* the texts of segs[p .. l] joined by single spaces, and their words in order
RECURSIVE JoinTexts(_, _, _)
JoinTexts(segs, p, l) ==
    IF p > l THEN <<>>
    ELSE IF p = l THEN segs[p].text
    ELSE segs[p].text \o <<" ">> \o JoinTexts(segs, p + 1, l)

RECURSIVE ConcatWords(_, _, _)
ConcatWords(segs, p, l) ==
    IF p > l THEN <<>> ELSE segs[p].words \o ConcatWords(segs, p + 1, l)

\* the places where a maximal run of segs starts, and where the run that
\* starts at p ends
RunStarts(segs, g) == {1} \cup {i + 1 : i \in Breaks(segs, g)}

RunEnd(segs, g, p) ==
    CHOOSE l \in p .. Len(segs) :
        /\ l = Len(segs) \/ l \in Breaks(segs, g)
        /\ \A i \in p .. l - 1 : i \notin Breaks(segs, g)

\* out is the list of the maximal runs of segs, one segment for each
RunsOf(segs, g, out) ==
    /\ Len(out) = Cardinality(RunStarts(segs, g))
    /\ \A p \in RunStarts(segs, g) :
          LET k == Cardinality({q \in RunStarts(segs, g) : q <= p})
              l == RunEnd(segs, g, p)
          IN  /\ out[k].start = segs[p].start
              /\ out[k].end = segs[l].end
              /\ out[k].speaker = segs[p].speaker
              /\ out[k].text = JoinTexts(segs, p, l)
              /\ out[k].words = ConcatWords(segs, p, l)
    /\ JoinTexts(out, 1, Len(out)) = JoinTexts(segs, 1, Len(segs))

\* C28: every segment merge_consecutive_speaker_segments returns stands for a
\* maximal run of consecutive segments of its argument: it starts where the
\* first of them starts, ends where the last of them ends, has their texts
\* joined by single spaces and their words in order; all returned texts
\* joined by spaces are all given texts joined by spaces; and the list given
\* is as it was before the call.
C28_RunsMerged ==
    [][(Merge /\ segments # <<>>) =>
          /\ segments' = segments
          /\ RunsOf(segments, max_gap_arg[1], merged'[1])]_vars

\* "hi" and "there" of one speaker, one after the other, became "hi there"
C28_Witness ==
    /\ apc = "merge_returned"
    /\ Len(segments) = 2
    /\ segments[1].start < segments[1].end
    /\ segments[2].start = segments[1].end
    /\ segments[2].start < segments[2].end
    /\ Len(merged[1]) = 1
    /\ merged[1][1].start = segments[1].start
    /\ merged[1][1].end = segments[2].end
    /\ merged[1][1].text = <<"hi", " ", "there">>
    /\ merged[1][1].words = <<"hi", "there">>

\* the calls of get_next_pending that handed a job to the worker, each of
\* which starts process_job
StartsOf(id) == {i \in 1 .. Len(returned) : returned[i].by = Worker /\ returned[i].id = id}

\* C29: with the volatile store and the single worker, process_job starts at
\* most once for a job and at most one webhook is posted for it, because a job
\* handed out is no longer pending when the worker asks for the next one.
C29_ProcessedOnce ==
    backend = "memory" =>
        /\ \A id \in StoredIds : Cardinality(StartsOf(id)) <= 1
        /\ \A id \in StoredIds : Cardinality(PostsOf(id)) <= 1
        /\ pc[Worker] \in {"w_loop", "m_next"} =>
              \A id \in ReturnedIds : StatusOf(id) # PENDING

\* the worker, done with one job, asks for the next while a handler is inside
\* add_job or get_job
C29_Witness ==
    /\ backend = "memory"
    /\ pc[Worker] = "m_next"
    /\ Len(returned) = 1
    /\ Cardinality(PostsOf(returned[1].id)) = 1
    /\ \E h \in Handlers : pc[h] \in {"m_add", "m_get"}

\* C30: every get_queue call of the worker thread and of the handlers returns
\* the same queue object, and a job a handler has added can be seen through
\* the object the worker polls.
C30_OneQueue ==
    /\ \A t \in Threads, u \in Threads :
          (qlocal[t] # None /\ qlocal[u] # None) => qlocal[t] = qlocal[u]
    /\ qlocal[Worker] # None => \A id \in addDone : id \in JobsIn(qlocal[Worker][1])

\* the ids a get_next_pending call in progress has taken off the list and is
\* about to read
Popped == {loc[t].args.job_id : t \in {u \in Threads : pc[u] = "r_next_get"}}

\* the ids in the pending list
Listed == {rqueue[i] : i \in 1 .. Len(rqueue)}

\* C31: in the durable store every id is in the pending list at most once;
\* every id in the list has a stored job that is pending; every stored pending
\* job whose add_job has returned is in the list or has been handed out by
\* get_next_pending (or is being handed out by a call in progress); and a
\* call that has taken an id off the list finds its job, so that none is
\* returned only when the list is empty.
C31_PendingList ==
    backend = "redis" =>
        /\ \A i \in 1 .. Len(rqueue), k \in 1 .. Len(rqueue) :
              rqueue[i] = rqueue[k] => i = k
        /\ \A id \in Listed : IsStored(id) /\ StatusOf(id) = PENDING
        /\ \A id \in addDone :
              StatusOf(id) = PENDING => id \in Listed \cup ReturnedIds \cup Popped
        /\ \A id \in Popped : RedisGet(id) # None

====
